---- MODULE Spec2Model ----
(***************************************************************************)
(* Heavy-Light Decomposition over a sum segment tree                       *)
(* (heavy_light_decomposition.cc).  The state is one HLD object with its   *)
(* SegmentTree member; the actions are the public member functions.        *)
(***************************************************************************)
EXTENDS Integers, Sequences, FiniteSets, TLC

\* ---------------------------------------------------------------- bounds
MaxN == 4
MaxUpdates == 1

\* the values a caller writes with update_node_value
UpdVals == {-5}

\* the values a caller of a stand-alone SegmentTree stores in it
SegVals == {-5, 1, 100}

VARIABLES
    phase,         \* "edges": constructed, add_edge allowed; "built": after build(root)
    N,             \* HLD::N
    adj,           \* HLD::adj, adj[u] the list of neighbours in push_back order
    values,        \* HLD::values
    parent,        \* HLD::parent
    depth,         \* HLD::depth
    subtree_size,  \* HLD::subtree_size
    heavy_child,   \* HLD::heavy_child
    head,          \* HLD::head
    pos,           \* HLD::pos
    cur_pos,       \* HLD::cur_pos
    seg_n,         \* SegmentTree::n of HLD::seg_tree
    tree,          \* SegmentTree::tree of HLD::seg_tree
    root,          \* the argument build was called with (-1 before build)
    n_updates,     \* number of update_node_value calls made so far
    seg_arr        \* the array a caller of a stand-alone SegmentTree built it from,
                   \* with every update applied (unused by the HLD object)

vars == << phase, N, adj, values, parent, depth, subtree_size, heavy_child,
           head, pos, cur_pos, seg_n, tree, root, n_updates, seg_arr >>

Nodes == 0 .. (N - 1)

\* the vector<int>(n, x) constructor
Filled(n, x) == [i \in 0 .. (n - 1) |-> x]

RECURSIVE Pow(_, _)
Pow(b, e) == IF e = 0 THEN 1 ELSE b * Pow(b, e - 1)

\* the initial values handed to the constructor: node i starts with 3^i, so a
\* path sum determines which nodes were added and how often
InitialValues(n) == [i \in 0 .. (n - 1) |-> Pow(3, i)]

\* ----------------------------------------------------------- SegmentTree

combine(a, b) == a + b

RECURSIVE seg_build(_, _, _, _, _)
seg_build(t, arr, node, start, end) ==
    IF start = end
    THEN [t EXCEPT ![node] = arr[start]]
    ELSE LET mid == (start + end) \div 2
             t1 == seg_build(t, arr, 2 * node + 1, start, mid)
             t2 == seg_build(t1, arr, 2 * node + 2, mid + 1, end)
         IN  [t2 EXCEPT ![node] = combine(t2[2 * node + 1], t2[2 * node + 2])]

build_from_mapped_values(t, n, values_at_pos) ==
    IF DOMAIN values_at_pos = {}
    THEN t
    ELSE seg_build(t, values_at_pos, 0, 0, n - 1)

\* seg_update_rec with the parent's sum left as it was
RECURSIVE seg_update_rec_no_recombine(_, _, _, _, _, _)
seg_update_rec_no_recombine(t, node, start, end, idx, val) ==
    IF start = end
    THEN [t EXCEPT ![node] = val]
    ELSE LET mid == (start + end) \div 2
         IN  IF start <= idx /\ idx <= mid
             THEN seg_update_rec_no_recombine(t, 2 * node + 1, start, mid, idx, val)
             ELSE seg_update_rec_no_recombine(t, 2 * node + 2, mid + 1, end, idx, val)

RECURSIVE seg_update_rec(_, _, _, _, _, _)
seg_update_rec(t, node, start, end, idx, val) ==
    IF start = end
    THEN [t EXCEPT ![node] = val]
    ELSE LET mid == (start + end) \div 2
             t1 == IF start <= idx /\ idx <= mid
                   THEN seg_update_rec(t, 2 * node + 1, start, mid, idx, val)
                   ELSE seg_update_rec(t, 2 * node + 2, mid + 1, end, idx, val)
         IN  [t1 EXCEPT ![node] = combine(t1[2 * node + 1], t1[2 * node + 2])]

seg_update(t, n, index, value) == seg_update_rec(t, 0, 0, n - 1, index, value)

RECURSIVE seg_query_rec(_, _, _, _, _, _)
seg_query_rec(t, node, start, end, l, r) ==
    IF r < start \/ end < l
    THEN 0
    ELSE IF l <= start /\ end <= r
    THEN t[node]
    ELSE LET mid == (start + end) \div 2
             p1 == seg_query_rec(t, 2 * node + 1, start, mid, l, r)
             p2 == seg_query_rec(t, 2 * node + 2, mid + 1, end, l, r)
         IN  combine(p1, p2)

seg_query(t, n, query_left, query_right) ==
    IF query_left > query_right
    THEN 0
    ELSE seg_query_rec(t, 0, 0, n - 1, query_left, query_right)

\* ------------------------------------------------------------------- HLD

\* the per-node arrays the two passes write, as one record
Book == [parent |-> parent, depth |-> depth, subtree_size |-> subtree_size,
         heavy_child |-> heavy_child, head |-> head, pos |-> pos,
         cur_pos |-> cur_pos]

RECURSIVE dfs1_size_depth_parent(_, _, _, _)
RECURSIVE dfs1_children(_, _, _, _, _, _)

\* dfs1_children with >= for >: the last of the largest children wins
RECURSIVE dfs1_children_last_wins(_, _, _, _, _, _)
dfs1_children_last_wins(b, u, p, d, i, max_c_subtree_size) ==
    IF i > Len(adj[u])
    THEN b
    ELSE LET v == adj[u][i] IN
         IF v = p
         THEN dfs1_children_last_wins(b, u, p, d, i + 1, max_c_subtree_size)
         ELSE LET b1 == dfs1_size_depth_parent(b, v, u, d + 1)
                  b2 == [b1 EXCEPT !.subtree_size[u] = @ + b1.subtree_size[v]]
              IN  IF b2.subtree_size[v] >= max_c_subtree_size
                  THEN dfs1_children_last_wins([b2 EXCEPT !.heavy_child[u] = v],
                                               u, p, d, i + 1, b2.subtree_size[v])
                  ELSE dfs1_children_last_wins(b2, u, p, d, i + 1, max_c_subtree_size)

\* the for loop of dfs1 over adj[u], from list index i on
dfs1_children(b, u, p, d, i, max_c_subtree_size) ==
    IF i > Len(adj[u])
    THEN b
    ELSE LET v == adj[u][i] IN
         IF v = p
         THEN dfs1_children(b, u, p, d, i + 1, max_c_subtree_size)
         ELSE LET b1 == dfs1_size_depth_parent(b, v, u, d + 1)
                  b2 == [b1 EXCEPT !.subtree_size[u] = @ + b1.subtree_size[v]]
              IN  IF b2.subtree_size[v] > max_c_subtree_size
                  THEN dfs1_children([b2 EXCEPT !.heavy_child[u] = v],
                                     u, p, d, i + 1, b2.subtree_size[v])
                  ELSE dfs1_children(b2, u, p, d, i + 1, max_c_subtree_size)

dfs1_size_depth_parent(b, u, p, d) ==
    dfs1_children([b EXCEPT !.parent[u] = p, !.depth[u] = d, !.subtree_size[u] = 1],
                  u, p, d, 1, 0)

RECURSIVE dfs2_hld(_, _, _)
RECURSIVE dfs2_light(_, _, _)

\* dfs2_light handing the light child its parent's head instead of itself
RECURSIVE dfs2_light_keeps_head(_, _, _)
dfs2_light_keeps_head(b, u, i) ==
    IF i > Len(adj[u])
    THEN b
    ELSE LET v == adj[u][i] IN
         IF v = b.parent[u] \/ v = b.heavy_child[u]
         THEN dfs2_light_keeps_head(b, u, i + 1)
         ELSE dfs2_light_keeps_head(dfs2_hld(b, v, b.head[u]), u, i + 1)

\* the for loop of dfs2 over adj[u], from list index i on
dfs2_light(b, u, i) ==
    IF i > Len(adj[u])
    THEN b
    ELSE LET v == adj[u][i] IN
         IF v = b.parent[u] \/ v = b.heavy_child[u]
         THEN dfs2_light(b, u, i + 1)
         ELSE dfs2_light(dfs2_hld(b, v, v), u, i + 1)

\* dfs2_hld visiting the light children before the heavy child
dfs2_hld_light_first(b, u, h) ==
    LET b0 == [b EXCEPT !.head[u] = h, !.pos[u] = b.cur_pos, !.cur_pos = @ + 1]
        b1 == dfs2_light(b0, u, 1)
    IN  IF b1.heavy_child[u] # -1
        THEN dfs2_hld(b1, b1.heavy_child[u], h)
        ELSE b1

dfs2_hld(b, u, h) ==
    LET b0 == [b EXCEPT !.head[u] = h, !.pos[u] = b.cur_pos, !.cur_pos = @ + 1]
        b1 == IF b0.heavy_child[u] # -1
              THEN dfs2_hld(b0, b0.heavy_child[u], h)
              ELSE b0
    IN  dfs2_light(b1, u, 1)

\* the loop of build: values_for_seg_tree[pos[i]] = values[i] for i = 0 .. N-1
RECURSIVE values_for_seg_tree(_, _, _)
values_for_seg_tree(arr, p, i) ==
    IF i >= N
    THEN arr
    ELSE values_for_seg_tree([arr EXCEPT ![p[i]] = values[i]], p, i + 1)

\* query_path_loop summing a chain from the node after its head
RECURSIVE query_path_loop_skips_head(_, _, _, _)
query_path_loop_skips_head(t, u, v, result) ==
    IF u \notin Nodes \/ v \notin Nodes
    THEN [u |-> u, v |-> v, result |-> result, oob |-> TRUE]
    ELSE IF head[u] = head[v]
    THEN [u |-> u, v |-> v, result |-> result, oob |-> FALSE]
    ELSE LET su == IF depth[head[u]] < depth[head[v]] THEN v ELSE u
             sv == IF depth[head[u]] < depth[head[v]] THEN u ELSE v
         IN  query_path_loop_skips_head(
                 t, parent[head[su]], sv,
                 result + seg_query(t, seg_n, pos[head[su]] + 1, pos[su]))

\* the chain-jump loop of query_path on an object whose seg_tree holds t.
\* oob is set when the loop is entered with an index that is no node
\* (head[u] would read outside the vector)
RECURSIVE query_path_loop(_, _, _, _)
query_path_loop(t, u, v, result) ==
    IF u \notin Nodes \/ v \notin Nodes
    THEN [u |-> u, v |-> v, result |-> result, oob |-> TRUE]
    ELSE IF head[u] = head[v]
    THEN [u |-> u, v |-> v, result |-> result, oob |-> FALSE]
    ELSE LET su == IF depth[head[u]] < depth[head[v]] THEN v ELSE u
             sv == IF depth[head[u]] < depth[head[v]] THEN u ELSE v
         IN  query_path_loop(t, parent[head[su]], sv,
                             result + seg_query(t, seg_n, pos[head[su]], pos[su]))

\* query_path without the swap before the last range query
query_path_no_final_swap(t, u, v) ==
    LET l == query_path_loop(t, u, v, 0)
    IN  IF l.oob
        THEN [result |-> l.result, oob |-> TRUE]
        ELSE [result |-> l.result + seg_query(t, seg_n, pos[l.u], pos[l.v]),
              oob |-> FALSE]

\* query_path whose last range query starts one position late
query_path_drops_top(t, u, v) ==
    LET l  == query_path_loop(t, u, v, 0)
        fu == IF depth[l.u] > depth[l.v] THEN l.v ELSE l.u
        fv == IF depth[l.u] > depth[l.v] THEN l.u ELSE l.v
    IN  IF l.oob
        THEN [result |-> l.result, oob |-> TRUE]
        ELSE [result |-> l.result + seg_query(t, seg_n, pos[fu] + 1, pos[fv]),
              oob |-> FALSE]

\* query_path(u, v) on an object whose seg_tree holds t
query_path(t, u, v) ==
    LET l  == query_path_loop(t, u, v, 0)
        fu == IF depth[l.u] > depth[l.v] THEN l.v ELSE l.u
        fv == IF depth[l.u] > depth[l.v] THEN l.u ELSE l.v
    IN  IF l.oob
        THEN [result |-> l.result, oob |-> TRUE]
        ELSE [result |-> l.result + seg_query(t, seg_n, pos[fu], pos[fv]),
              oob |-> FALSE]

\* get_lca_loop jumping from the chain whose head is shallower
RECURSIVE get_lca_loop_jumps_shallower(_, _)
get_lca_loop_jumps_shallower(u, v) ==
    IF u \notin Nodes \/ v \notin Nodes
    THEN [u |-> u, v |-> v, oob |-> TRUE]
    ELSE IF head[u] = head[v]
    THEN [u |-> u, v |-> v, oob |-> FALSE]
    ELSE LET su == IF depth[head[u]] > depth[head[v]] THEN v ELSE u
             sv == IF depth[head[u]] > depth[head[v]] THEN u ELSE v
         IN  get_lca_loop_jumps_shallower(parent[head[su]], sv)

\* the chain-jump loop of get_lca
RECURSIVE get_lca_loop(_, _)
get_lca_loop(u, v) ==
    IF u \notin Nodes \/ v \notin Nodes
    THEN [u |-> u, v |-> v, oob |-> TRUE]
    ELSE IF head[u] = head[v]
    THEN [u |-> u, v |-> v, oob |-> FALSE]
    ELSE LET su == IF depth[head[u]] < depth[head[v]] THEN v ELSE u
             sv == IF depth[head[u]] < depth[head[v]] THEN u ELSE v
         IN  get_lca_loop(parent[head[su]], sv)

\* get_lca returning the deeper of the two nodes left on the common chain
get_lca_deeper(u, v) ==
    LET l == get_lca_loop(u, v)
    IN  IF l.oob
        THEN [result |-> -1, oob |-> TRUE]
        ELSE [result |-> IF depth[l.u] > depth[l.v] THEN l.u ELSE l.v,
              oob |-> FALSE]

get_lca(u, v) ==
    LET l == get_lca_loop(u, v)
    IN  IF l.oob
        THEN [result |-> -1, oob |-> TRUE]
        ELSE [result |-> IF depth[l.u] < depth[l.v] THEN l.u ELSE l.v,
              oob |-> FALSE]

\* ------------------------------------------------------ the caller's side

Neighbours(u) == {adj[u][i] : i \in 1 .. Len(adj[u])}

\* the nodes reachable from the nodes of S over the edges added so far
RECURSIVE ReachFrom(_)
ReachFrom(S) ==
    LET T == S \cup UNION {Neighbours(u) : u \in S}
    IN  IF T = S THEN S ELSE ReachFrom(T)

Connected(u, v) == v \in ReachFrom({u})

Init ==
    /\ phase = "edges"
    /\ N \in 1 .. MaxN
    /\ adj = [u \in Nodes |-> << >>]
    /\ values = InitialValues(N)
    /\ parent = Filled(N, -1)
    /\ depth = Filled(N, 0)
    /\ subtree_size = Filled(N, 1)
    /\ heavy_child = Filled(N, -1)
    /\ head = Filled(N, 0)
    /\ pos = Filled(N, 0)
    /\ cur_pos = 0
    /\ seg_n = N
    /\ tree = Filled(4 * N, 0)
    /\ root = -1
    /\ n_updates = 0
    /\ seg_arr = << >>

\* add_edge(u, v).  The caller adds the edges of a tree: no self-loop, and
\* never an edge between two nodes that are already connected.
AddEdge(u, v) ==
    /\ phase = "edges"
    /\ u # v
    /\ ~Connected(u, v)
    /\ adj' = [adj EXCEPT ![u] = Append(@, v), ![v] = Append(@, u)]
    /\ UNCHANGED << phase, N, values, parent, depth, subtree_size, heavy_child,
                    head, pos, cur_pos, seg_n, tree, root, n_updates, seg_arr >>

\* build(r), called once, when the edges added form a tree on all N nodes
Build(r) ==
    /\ phase = "edges"
    /\ ReachFrom({r}) = Nodes
    /\ LET b1 == dfs1_size_depth_parent(Book, r, -1, 0)
           b2 == dfs2_hld(b1, r, r)
           vs == values_for_seg_tree(Filled(N, 0), b2.pos, 0)
       IN  /\ parent' = b2.parent
           /\ depth' = b2.depth
           /\ subtree_size' = b2.subtree_size
           /\ heavy_child' = b2.heavy_child
           /\ head' = b2.head
           /\ pos' = b2.pos
           /\ cur_pos' = b2.cur_pos
           /\ tree' = build_from_mapped_values(tree, seg_n, vs)
    /\ phase' = "built"
    /\ root' = r
    /\ UNCHANGED << N, adj, values, seg_n, n_updates, seg_arr >>

\* update_node_value writing the segment tree at u instead of pos[u]
UpdateNodeValue_at_node(u, new_value) ==
    /\ phase = "built"
    /\ n_updates < MaxUpdates
    /\ values' = [values EXCEPT ![u] = new_value]
    /\ tree' = seg_update(tree, seg_n, u, new_value)
    /\ n_updates' = n_updates + 1
    /\ UNCHANGED << phase, N, adj, parent, depth, subtree_size, heavy_child,
                    head, pos, cur_pos, seg_n, root, seg_arr >>

UpdateNodeValue(u, new_value) ==
    /\ phase = "built"
    /\ n_updates < MaxUpdates
    /\ values' = [values EXCEPT ![u] = new_value]
    /\ tree' = seg_update(tree, seg_n, pos[u], new_value)
    /\ n_updates' = n_updates + 1
    /\ UNCHANGED << phase, N, adj, parent, depth, subtree_size, heavy_child,
                    head, pos, cur_pos, seg_n, root, seg_arr >>

\* query_path(u, v) and get_lca(u, v) read the object and write nothing;
\* what they return is query_path(tree, u, v) and get_lca(u, v) above
QueryPath(u, v) ==
    /\ phase = "built"
    /\ UNCHANGED vars

GetLca(u, v) ==
    /\ phase = "built"
    /\ UNCHANGED vars

\* the whole life of an HLD object rooted at node 0: edges, build, then
\* updates and queries in any order
Next ==
    \/ \E u, v \in Nodes : AddEdge(u, v)
    \/ Build(0)
    \/ \E u \in Nodes, x \in UpdVals : UpdateNodeValue(u, x)
    \/ \E u, v \in Nodes : QueryPath(u, v)
    \/ \E u, v \in Nodes : GetLca(u, v)

Spec == Init /\ [][Next]_vars

\* an HLD object built at any root and queried, its values never updated
NextBuild ==
    \/ \E u, v \in Nodes : AddEdge(u, v)
    \/ \E r \in Nodes : Build(r)
    \/ \E u, v \in Nodes : QueryPath(u, v)
    \/ \E u, v \in Nodes : GetLca(u, v)

BuildSpec == Init /\ [][NextBuild]_vars

\* ------------------------------------------- a SegmentTree on its own

SegInit ==
    /\ phase = "seg_new"
    /\ seg_n \in 1 .. MaxN
    /\ tree = Filled(4 * seg_n, 0)
    /\ seg_arr = << >>
    /\ N = seg_n
    /\ adj = [u \in Nodes |-> << >>]
    /\ values = Filled(N, 0)
    /\ parent = Filled(N, -1)
    /\ depth = Filled(N, 0)
    /\ subtree_size = Filled(N, 1)
    /\ heavy_child = Filled(N, -1)
    /\ head = Filled(N, 0)
    /\ pos = Filled(N, 0)
    /\ cur_pos = 0
    /\ root = -1
    /\ n_updates = 0

HldVars == << N, adj, values, parent, depth, subtree_size, heavy_child,
              head, pos, cur_pos, root, n_updates >>

\* build_from_mapped_values(a), called once, with an array of length n
SegBuild(a) ==
    /\ phase = "seg_new"
    /\ tree' = build_from_mapped_values(tree, seg_n, a)
    /\ seg_arr' = a
    /\ phase' = "seg_built"
    /\ UNCHANGED << seg_n, HldVars >>

SegUpdate(index, value) ==
    /\ phase = "seg_built"
    /\ tree' = seg_update(tree, seg_n, index, value)
    /\ seg_arr' = [seg_arr EXCEPT ![index] = value]
    /\ UNCHANGED << phase, seg_n, HldVars >>

\* query(l, r) reads the tree and writes nothing
SegQuery(l, r) ==
    /\ phase = "seg_built"
    /\ UNCHANGED vars

SegNext ==
    \/ \E a \in [0 .. (seg_n - 1) -> SegVals] : SegBuild(a)
    \/ \E i \in 0 .. (seg_n - 1), x \in SegVals : SegUpdate(i, x)
    \/ \E l, r \in 0 .. (seg_n - 1) : SegQuery(l, r)

SegSpec == SegInit /\ [][SegNext]_vars

\* ------------------------------------------------- what the tree itself says
\* (from the edges added and the root given to build, not from the arrays
\*  the two passes computed)

\* the nodes of the simple path from u to v, searched away from prev
RECURSIVE PathFrom(_, _, _)
PathFrom(u, v, prev) ==
    IF u = v
    THEN {v}
    ELSE LET found == UNION {PathFrom(w, v, u) : w \in Neighbours(u) \ {prev}}
         IN  IF found = {} THEN {} ELSE {u} \cup found

PathNodes(u, v) == PathFrom(u, v, -1)

RECURSIVE SumValues(_, _)
SumValues(vals, S) ==
    IF S = {}
    THEN 0
    ELSE LET w == CHOOSE x \in S : TRUE IN vals[w] + SumValues(vals, S \ {w})

PathSum(u, v) == SumValues(values, PathNodes(u, v))

Ancestors(u) == PathNodes(root, u)
TrueDepth(u) == Cardinality(Ancestors(u)) - 1
Subtree(u) == {w \in Nodes : u \in Ancestors(w)}
Children(u) == {w \in Neighbours(u) : u \in Ancestors(w)}

Lca(u, v) ==
    LET common == Ancestors(u) \cap Ancestors(v)
    IN  CHOOSE w \in common : \A x \in common : TrueDepth(x) <= TrueDepth(w)

\* the child of u that comes first in adj[u] among its largest children
FirstLargestChild(u) ==
    LET m == CHOOSE k \in {Cardinality(Subtree(c)) : c \in Children(u)} :
                 \A c \in Children(u) : Cardinality(Subtree(c)) <= k
        largest == {i \in 1 .. Len(adj[u]) :
                        /\ adj[u][i] \in Children(u)
                        /\ Cardinality(Subtree(adj[u][i])) = m}
        first == CHOOSE i \in largest : \A j \in largest : i <= j
    IN  adj[u][first]

\* the top of the heavy path through u: up the parent links while u is its
\* parent's heavy child
RECURSIVE ChainTop(_)
ChainTop(u) ==
    IF u = root \/ heavy_child[parent[u]] # u
    THEN u
    ELSE ChainTop(parent[u])

Built == phase = "built"

\* two nodes on different chains whose chain heads are equally deep
EqualDepthHeads(u, v) ==
    head[u] # head[v] /\ depth[head[u]] = depth[head[v]]

\* --------------------------------------------------------------- claims

\* C1: after add_edge for every edge of a tree and one build(root),
\* query_path(u, v) returns the sum of the values of exactly the nodes of the
\* simple path from u to v, both ends included, each counted once.
C1_QueryPathIsPathSum ==
    Built => \A u, v \in Nodes :
                 query_path(tree, u, v) = [result |-> PathSum(u, v), oob |-> FALSE]

\* a built tree with a path of four nodes that crosses from one chain to another
C1_Witness ==
    /\ Built
    /\ \E u, v \in Nodes :
          /\ head[u] # head[v]
          /\ Cardinality(PathNodes(u, v)) >= 3
          /\ Lca(u, v) \notin {u, v}
          /\ query_path(tree, u, v).result = PathSum(u, v)

\* C2: after build(root), get_lca(u, v) returns the deepest node that is an
\* ancestor of (or equal to) both u and v; get_lca(u, u) = u, and
\* get_lca(u, v) = u when u is an ancestor of v.
C2_GetLcaIsLca ==
    Built => \A u, v \in Nodes :
                 /\ get_lca(u, v) = [result |-> Lca(u, v), oob |-> FALSE]
                 /\ get_lca(u, u).result = u
                 /\ (u \in Ancestors(v) => get_lca(u, v).result = u)

\* a built tree with two nodes on different chains, neither an ancestor of
\* the other, whose lowest common ancestor is not the root
C2_Witness ==
    /\ Built
    /\ \E u, v \in Nodes :
          /\ head[u] # head[v]
          /\ get_lca(u, v).result \notin {u, v, root}
          /\ get_lca(u, v).result = Lca(u, v)

C4_PathSymmetry ==
    Built => \A u, v \in Nodes : query_path(tree, u, v) = query_path(tree, v, u)

\* after an update, two nodes on different chains with equally deep heads
C4_Witness ==
    /\ Built
    /\ n_updates >= 1
    /\ \E u, v \in Nodes :
          /\ EqualDepthHeads(u, v)
          /\ query_path(tree, u, v) = query_path(tree, v, u)

\* C5: in every state after build and any updates, with l = get_lca(u, v):
\* query_path(u, l) + query_path(v, l) - values[l] = query_path(u, v).
C5_Additivity ==
    Built => \A u, v \in Nodes :
                 LET l == get_lca(u, v).result
                 IN  query_path(tree, u, l).result + query_path(tree, v, l).result - values[l]
                         = query_path(tree, u, v).result

\* after an update of the lowest common ancestor of two nodes that are not
\* ancestors of each other
C5_Witness ==
    /\ Built
    /\ n_updates >= 1
    /\ \E u, v \in Nodes :
          LET l == get_lca(u, v).result
          IN  /\ l \notin {u, v}
              /\ values[l] # InitialValues(N)[l]
              /\ query_path(tree, u, l).result + query_path(tree, v, l).result - values[l]
                     = query_path(tree, u, v).result

\* C6: after build, every node u with a heavy child c has pos[c] = pos[u] + 1,
\* and updates and queries keep it so.
C6_HeavyChildIsNext ==
    Built => \A u \in Nodes :
                 heavy_child[u] # -1 => pos[heavy_child[u]] = pos[u] + 1

\* after an update, a node with a heavy child and a light child
C6_Witness ==
    /\ Built
    /\ n_updates >= 1
    /\ \E u, c \in Nodes :
          /\ heavy_child[u] # -1
          /\ parent[c] = u
          /\ c # heavy_child[u]
          /\ pos[heavy_child[u]] = pos[u] + 1

\* C8: after build, head[u] is the ancestor reached from u over heavy-child
\* edges only, a heavy child has its parent's head, and
\* pos[u] - pos[head[u]] = depth[u] - depth[head[u]].
C8_HeadAndPositions ==
    Built => \A u \in Nodes :
                 /\ head[u] = ChainTop(u)
                 /\ head[u] \in Ancestors(u)
                 /\ heavy_child[u] # -1 => head[heavy_child[u]] = head[u]
                 /\ pos[u] - pos[head[u]] = depth[u] - depth[head[u]]

\* a heavy path of three nodes beside a light chain
C8_Witness ==
    /\ Built
    /\ \E u, w \in Nodes :
          /\ depth[u] - depth[head[u]] = 2
          /\ pos[u] = pos[head[u]] + 2
          /\ head[w] = w
          /\ w # root

\* C9: after build, subtree_size[u] counts the nodes of u's subtree;
\* heavy_child[u] = -1 exactly when u has no child; otherwise it is the child
\* with the largest subtree, the first such in adj[u].
C9_SizesAndHeavyChild ==
    Built => \A u \in Nodes :
                 /\ subtree_size[u] = Cardinality(Subtree(u))
                 /\ heavy_child[u] = -1 <=> Children(u) = {}
                 /\ Children(u) # {} => heavy_child[u] = FirstLargestChild(u)

\* a node with two children of equal size, the one added first having the
\* larger index and being the heavy child
C9_Witness ==
    /\ Built
    /\ \E u, c, d \in Nodes :
          /\ {c, d} \subseteq Children(u)
          /\ c > d
          /\ subtree_size[c] = subtree_size[d]
          /\ heavy_child[u] = c

\* C10: after build, the chain-jump loops of query_path and get_lca never
\* jump from the root's chain (parent[head[u]] is a node, never -1), every
\* index they use is in 0 .. N-1, and they end with head[u] = head[v].
C10_JumpsStayInTree ==
    Built =>
        /\ parent[root] = -1
        /\ \A u \in Nodes :
              /\ head[u] \in Nodes
              /\ pos[u] \in 0 .. (seg_n - 1)
              /\ u # root => parent[u] \in Nodes
        /\ \A u, v \in Nodes :
              LET q == query_path_loop(tree, u, v, 0)
                  g == get_lca_loop(u, v)
              IN  /\ ~q.oob /\ ~g.oob
                  /\ q.u \in Nodes /\ q.v \in Nodes
                  /\ g.u \in Nodes /\ g.v \in Nodes
                  /\ head[q.u] = head[q.v]
                  /\ head[g.u] = head[g.v]

\* a built tree where the loop runs with equally deep heads and still ends
\* on a common chain
C10_Witness ==
    /\ Built
    /\ \E u, v \in Nodes :
          /\ EqualDepthHeads(u, v)
          /\ ~query_path_loop(tree, u, v, 0).oob
          /\ head[query_path_loop(tree, u, v, 0).u] = head[v] \/ head[query_path_loop(tree, u, v, 0).u] = root

RECURSIVE RangeSum(_, _, _)
RangeSum(a, l, r) == IF l > r THEN 0 ELSE a[l] + RangeSum(a, l + 1, r)

\* C7: a SegmentTree built from an array and then updated answers
\* query(left, right) with the sum of the current values at left .. right,
\* and with 0 when left > right.
C7_SegmentTreeQuery ==
    phase = "seg_built" =>
        \A l, r \in 0 .. (seg_n - 1) :
            seg_query(tree, seg_n, l, r) = RangeSum(seg_arr, l, r)

\* a tree of four positions, updated, queried on an inner range
C7_Witness ==
    /\ phase = "seg_built"
    /\ seg_n >= 4
    /\ seg_arr = [i \in 0 .. (seg_n - 1) |-> IF i = 1 THEN 100 ELSE IF i = 2 THEN -5 ELSE 1]
    /\ seg_query(tree, seg_n, 1, 2) = 95
    /\ seg_query(tree, seg_n, 2, 1) = 0

====
